---- MODULE Spec2Model ----
(***************************************************************************)
(* The asynchronous task pipeline of comfyui_proxy: the SQLite task store, *)
(* the TaskManager, the DELETE /tasks/{id} handler and the BackgroundWorker *)
(* loop, as one state machine.  Every `await` of the Python code is a      *)
(* point where another coroutine may run, so every handler is cut into one *)
(* action per awaited store or client call.                                *)
(***************************************************************************)
EXTENDS Integers, Sequences, FiniteSets, TLC

\* ------------------------------------------------------------------ bounds
MaxTasks == 2
MaxCancels == 2
MaxImages == 2
MaxLoops == 2
MaxNodes == 2
MaxEvents == 2
MaxValue == 3
MaxPrior == 2
MaxTimeout == 5
MaxMax == 2
MaxStops == 2
Quantum == 15

TaskIds == 1..MaxTasks
Cancels == 1..MaxCancels
Loops == 1..MaxLoops
Nodes == 1..MaxNodes

\* ------------------------------------------------------- program constants
HTTP_204 == 204
HTTP_404 == 404
HTTP_409 == 409
HTTP_500 == 500
UPLOADING_PROGRESS == 80
COMPLETED_PROGRESS == 100
MAX_RETRIES == 3
RECV_TIMEOUT == 30

\* Optional[T]: None, or a value.
None == << >>
Some(x) == << x >>

\* TaskStatus
PENDING == "pending"
PROCESSING == "processing"
UPLOADING == "uploading"
COMPLETED == "completed"
FAILED == "failed"

\* str(e) of the exceptions a processing step raises.
ErrNotInStorage == "Task not found in storage"
ErrQueue == "queue_prompt failed"
ErrTimeout == "Workflow execution timed out"
ErrExecution == "ComfyUI execution error"
ErrNoOutputs == "No output images found for specified nodes"
ErrDownload == "get_image failed"
ErrUpload == "Failed to upload image"
ErrRecord == "Failed to write record"
ErrTransport == "upload request raised"
ErrRead == "Failed to get record"
ErrHistory == "Prompt not found in history"
ErrGetHistory == "get_history failed"

\* What wait_for_completion raises.
WaitErrors == {ErrTimeout, ErrExecution, ErrGetHistory, ErrHistory}

VARIABLES
    tasks,      \* the tasks table: task_id -> row, for the stored ids
    used,       \* task ids uuid4 has handed out so far
    clock,      \* datetime.utcnow()
    running,    \* BackgroundWorker._running
    wtask,      \* BackgroundWorker._task: 0 (None) or the _run task
    stopping,   \* a stop() call is suspended in `await self._task`
    awaited,    \* _run task -> how many suspended stop() calls await it:
                \* cur on the worker of the module, old on a dropped one
    orphans,    \* _run tasks of the workers stop_worker has dropped: task ->
                \* the _running of its worker
    loop,       \* the _run tasks: position and locals of each
    cancel,     \* the DELETE handlers in flight: position and task_id
    response,   \* the status code of the DELETE response sent last
    claimed,    \* history: ids get_pending_tasks has returned to the worker
    reclaimed,  \* history: ids it has returned more than once
    queued,     \* history: ids whose workflow went to queue_prompt
    \* --- the completion wait of the task being processed
    node_ids,       \* task_db.output_node_ids
    history,        \* history["outputs"]: node id -> its list of images
    last_progress,  \* last_progress[0] of _process_task
    events,         \* history: progress messages received for the prompt
    \* --- the upload_and_attach_images call of the task being processed
    record_id,      \* feishu_config.record_id
    file_tokens,    \* file_tokens
    attempt,        \* upload_image: attempt
    last_error,     \* upload_image: last_error, as str(last_error)
    sleeps,         \* history: the asyncio.sleep arguments of this upload_image
    outcomes,       \* history: how each attempt of this upload_image ended
    tries,          \* history: attempts made for each artifact so far
    existing_attachments,   \* existing_attachments
    returned,       \* what upload_and_attach_images returned
    \* --- the Feishu services
    drive,          \* file tokens of the media stored in Drive
    record,         \* Bitable: record id -> attachment list of image_field
    calls,          \* history: the get/update/create record requests made
    \* --- wait_for_completion of the task being processed
    time,           \* asyncio.get_event_loop().time(), in seconds
    timeout,        \* timeout
    start_time,     \* start_time
    elapsed,        \* elapsed, as computed last
    recv_since,     \* when the pending wait_for(ws.recv(), ...) began
    wpc,            \* where wait_for_completion is
    message,        \* data: the message ws.recv() returned last, decoded
    callback,       \* the progress_callback call made for that message
    silences,       \* history: how many ws.recv() waits have timed out
    \* --- the metadata column of the tasks table, and GET /tasks/{id}
    metadata,       \* task_id -> the text of the metadata column, or None
    supplied,       \* history: task_id -> request.metadata of its POST
    got             \* the TaskResponse.metadata of the GET answered last

vars == << tasks, used, clock, running, wtask, stopping, awaited, orphans,
           loop, cancel,
           response, claimed, reclaimed, queued,
           node_ids, history, last_progress, events,
           record_id, file_tokens, attempt, last_error, sleeps, outcomes,
           tries, existing_attachments, returned, drive, record, calls,
           time, timeout, start_time, elapsed, recv_since, wpc, message,
           callback, silences, metadata, supplied, got >>

idVars == << used, clock >>
workerVars == << running, wtask, stopping, loop >>
apiVars == << cancel, response >>
histVars == << claimed, reclaimed, queued >>
renderVars == << node_ids, history, last_progress, events >>
uploadVars == << record_id, file_tokens, attempt, last_error, sleeps, outcomes,
                tries, existing_attachments, returned >>
remoteVars == << drive, record, calls >>
waitVars == << time, timeout, start_time, elapsed, recv_since, wpc, message,
              callback, silences >>
metaVars == << metadata, supplied, got >>
stopVars == << awaited, orphans >>
otherVars == << waitVars, metaVars, stopVars >>
clientVars == << renderVars, uploadVars, remoteVars, otherVars >>

\* ------------------------------------------------------------- the store

\* create_task inserting the task as already taken by the worker.
create_task_started(ts, task_id, now) ==
    [t \in (DOMAIN ts) \cup {task_id} |->
        IF t = task_id
        THEN [status |-> PROCESSING, progress |-> 0, result |-> None,
              error |-> None, created_at |-> now]
        ELSE ts[t]]

\* TaskManager.create_task building the TaskDB, SQLiteStorage.create_task
\* inserting it: one row.
create_task(ts, task_id, now) ==
    [t \in (DOMAIN ts) \cup {task_id} |->
        IF t = task_id
        THEN [status |-> PENDING, progress |-> 0, result |-> None,
              error |-> None, created_at |-> now]
        ELSE ts[t]]

\* SQLiteStorage.get_task: the row, or None.
get_task(ts, task_id) ==
    IF task_id \in DOMAIN ts THEN Some(ts[task_id]) ELSE None

\* SQLiteStorage.update_task: UPDATE ... WHERE task_id = ?, setting the
\* columns whose argument is not None; no row matches an unknown id.
update_task(ts, task_id, status, progress, result, error) ==
    [t \in DOMAIN ts |->
        IF t = task_id
        THEN [ts[t] EXCEPT
                !.status = IF status # None THEN status[1] ELSE @,
                !.progress = IF progress # None THEN progress[1] ELSE @,
                !.result = IF result # None THEN result ELSE @,
                !.error = IF error # None THEN error ELSE @]
        ELSE ts[t]]

\* SQLiteStorage.delete_task: DELETE ... WHERE task_id = ?
delete_task(ts, task_id) ==
    [t \in (DOMAIN ts) \ {task_id} |-> ts[t]]

\* SQLiteStorage.get_pending_tasks: SELECT ... WHERE status = 'pending'
\* ORDER BY created_at ASC LIMIT ?.  The ORDER BY names created_at alone, so
\* SQL leaves the order of rows with equal created_at open: the operator is
\* the set of lists the query may return.
PendingIds(ts) == { t \in DOMAIN ts : ts[t].status = PENDING }

get_pending_tasks(ts, limit) ==
    LET P == PendingIds(ts)
        n == IF Cardinality(P) < limit THEN Cardinality(P) ELSE limit
    IN { s \in [1..n -> P] :
            /\ \A i, j \in 1..n :
                  i < j => /\ s[i] # s[j]
                           /\ ts[s[i]].created_at <= ts[s[j]].created_at
            /\ \A p \in P : \A i \in 1..n :
                  (\A j \in 1..n : s[j] # p)
                      => ts[s[i]].created_at <= ts[p].created_at }

\* ------------------------------------------------------ the TaskManager

\* update_task_status writing the status alone, the progress left for a
\* write of its own.
update_task_status_alone(ts, task_id, status, progress) ==
    update_task(ts, task_id, Some(status), None, None, None)

\* TaskManager.update_task_status
update_task_status(ts, task_id, status, progress) ==
    update_task(ts, task_id, Some(status), progress, None, None)

\* complete_task leaving the progress column as it is.
complete_task_noprogress(ts, task_id, result) ==
    update_task(ts, task_id, Some(COMPLETED), None, Some(result), None)

\* TaskManager.complete_task
complete_task(ts, task_id, result) ==
    update_task(ts, task_id, Some(COMPLETED), Some(COMPLETED_PROGRESS),
                Some(result), None)

\* fail_task as a retry would write it: the task goes back to the queue.
fail_task_requeue(ts, task_id, error) ==
    update_task(ts, task_id, Some(PENDING), None, None, Some(error))

\* fail_task recording the work done so far as a partial result.
fail_task_partial(ts, task_id, error) ==
    update_task(ts, task_id, Some(FAILED), None,
                Some([images |-> 0, feishu_record_id |-> "none"]), Some(error))

\* TaskManager.fail_task
fail_task(ts, task_id, error) ==
    update_task(ts, task_id, Some(FAILED), None, None, Some(error))

\* ---------------------------------------------------------------- Init

\* A _run task that does not exist (never created, finished or cancelled).
DeadLoop == [pc |-> "dead", task_id |-> 0, err |-> "", n |-> 0]
\* A _run task as asyncio.create_task leaves it, and as it is while it
\* sleeps: its next step tests _running.
IdleLoop == [DeadLoop EXCEPT !.pc = "idle"]
\* A DELETE handler slot with no request in flight.
IdleCancel == [pc |-> "idle", task_id |-> 0]

\* No task is at its completion wait.
NoRender ==
    /\ node_ids = << >>
    /\ history = << >>
    /\ last_progress = 0
    /\ events = 0

\* No upload_and_attach_images call has begun, and the Feishu tables are
\* empty.
NoUpload ==
    /\ record_id = None
    /\ file_tokens = << >>
    /\ attempt = 0
    /\ last_error = None
    /\ sleeps = << >>
    /\ outcomes = << >>
    /\ tries = << >>
    /\ existing_attachments = << >>
    /\ returned = None
    /\ drive = {}
    /\ record = << >>
    /\ calls = << >>

\* No wait_for_completion call has begun.
NoWait ==
    /\ time = 0
    /\ timeout = 0
    /\ start_time = 0
    /\ elapsed = 0
    /\ recv_since = 0
    /\ wpc = "none"
    /\ message = None
    /\ callback = None
    /\ silences = 0

\* No stop() call is suspended, and stop_worker has dropped no worker whose
\* _run task is alive.
NoStop ==
    /\ awaited = [l \in Loops |-> [cur |-> 0, old |-> 0]]
    /\ orphans = << >>

\* The metadata column is not looked at, and no GET has been answered.
NoMeta ==
    /\ metadata = << >>
    /\ supplied = << >>
    /\ got = None

Init ==
    /\ tasks = << >>
    /\ used = {}
    /\ clock = 0
    /\ running = FALSE
    /\ wtask = 0
    /\ stopping = FALSE
    /\ loop = [l \in Loops |-> DeadLoop]
    /\ cancel = [c \in Cancels |-> IdleCancel]
    /\ response = 0
    /\ claimed = {}
    /\ reclaimed = {}
    /\ queued = {}
    /\ NoRender
    /\ NoUpload
    /\ NoWait
    /\ NoMeta
    /\ NoStop

\* ------------------------------------------------------------ the clock

\* Time passes between two requests.  The clock is read only into
\* created_at and created_at only compared with the created_at of other
\* rows, so it is let advance only past the created_at of a stored row and
\* while a task can still be created.
Tick ==
    /\ \E t \in DOMAIN tasks : tasks[t].created_at = clock
    /\ used # TaskIds
    /\ clock' = clock + 1
    /\ UNCHANGED << tasks, used, workerVars, apiVars, histVars,
                    clientVars >>

\* ------------------------------------------------------------- the API

\* POST /tasks -> TaskManager.create_task -> SQLiteStorage.create_task.
\* uuid4 never hands out an id twice.
ApiCreateTask ==
    \E id \in TaskIds \ used :
        /\ tasks' = create_task(tasks, id, clock)
        /\ used' = used \cup {id}
        /\ UNCHANGED << clock, workerVars, apiVars, histVars,
                    clientVars >>

\* DELETE /tasks/{id}, up to its first await: task_manager.get_task, then
\* 404 for an unknown id and 409 for a task that is not pending.
ApiCancelRead(c) ==
    /\ cancel[c].pc = "idle"
    /\ \A d \in Cancels : d < c => cancel[d].pc # "idle"
    /\ \E id \in TaskIds :
        LET task == get_task(tasks, id) IN
        IF task = None
        THEN response' = HTTP_404 /\ UNCHANGED cancel
        ELSE IF task[1].status # PENDING
        THEN response' = HTTP_409 /\ UNCHANGED cancel
        ELSE /\ cancel' = [cancel EXCEPT ![c] = [pc |-> "manager", task_id |-> id]]
             /\ UNCHANGED response
    /\ UNCHANGED << tasks, idVars, workerVars, histVars,
                    clientVars >>

\* TaskManager.cancel_task up to its delete: storage.get_task, then False
\* for a missing or non-pending task, which the handler turns into 500.
ApiCancelManager(c) ==
    /\ cancel[c].pc = "manager"
    /\ LET task == get_task(tasks, cancel[c].task_id) IN
       IF task = None \/ task[1].status # PENDING
       THEN /\ response' = HTTP_500
            /\ cancel' = [cancel EXCEPT ![c] = IdleCancel]
       ELSE /\ cancel' = [cancel EXCEPT ![c].pc = "delete"]
            /\ UNCHANGED response
    /\ UNCHANGED << tasks, idVars, workerVars, histVars,
                    clientVars >>

\* storage.delete_task, then cancel_task returns True and the handler 204.
ApiCancelDelete(c) ==
    /\ cancel[c].pc = "delete"
    /\ tasks' = delete_task(tasks, cancel[c].task_id)
    /\ response' = HTTP_204
    /\ cancel' = [cancel EXCEPT ![c] = IdleCancel]
    /\ UNCHANGED << idVars, workerVars, histVars,
                    clientVars >>

\* ---------------------------------------------------- BackgroundWorker

\* BackgroundWorker.start, called when no stop() is mid-await (the
\* lifespan calls start_worker and stop_worker one after the other).
Start ==
    /\ ~stopping
    /\ ~running
    /\ \E l \in Loops :
        /\ loop[l].pc = "dead"
        /\ \A m \in Loops : m < l => loop[m].pc # "dead"
        /\ loop' = [loop EXCEPT ![l] = IdleLoop]
        /\ wtask' = l
    /\ running' = TRUE
    /\ UNCHANGED << tasks, idVars, stopping, apiVars, histVars,
                    clientVars >>

\* The _run tasks alive on the worker get_worker() returns.
Own == { l \in Loops : loop[l].pc # "dead" /\ l \notin DOMAIN orphans }

\* self._running as the _run task l reads it: of its own worker, which is
\* the worker of the module unless stop_worker has dropped it.
Running(l) == IF l \in DOMAIN orphans THEN orphans[l] ELSE running

\* stop_worker: `_worker = None`.  The worker is dropped with its _running
\* as it is (r); its _run tasks that are alive keep reading that flag, and
\* the next get_worker() builds a worker with _running False, _task None.
Dropped(r) ==
    [l \in (DOMAIN orphans) \cup Own |->
        IF l \in DOMAIN orphans THEN orphans[l] ELSE r]

\* The _run tasks a suspended stop() awaits.
Awaited == { l \in Loops : awaited[l].cur + awaited[l].old > 0 }

\* The number of stop() calls suspended in `await self._task`.
RECURSIVE StopsUpTo(_, _)
StopsUpTo(aw, n) ==
    IF n = 0 THEN 0 ELSE aw[n].cur + aw[n].old + StopsUpTo(aw, n - 1)

Stops(aw) == StopsUpTo(aw, MaxLoops)

\* `_worker = None` as the suspended stop() calls see it: each goes on
\* with the worker it was called on, which is the module's no longer.
Stale(aw) == [l \in Loops |-> [cur |-> 0, old |-> aw[l].old + aw[l].cur]]

\* BackgroundWorker.stop up to `await self._task`, on the worker
\* get_worker() returns, an earlier stop() being suspended or not (stop
\* tests nothing but self._task): task.cancel() throws CancelledError into
\* _run at the await it is suspended in; no handler of _run,
\* _process_pending_tasks or _process_task catches it (they catch
\* Exception), so the coroutine ends there.  The one await that can lose
\* the cancellation is `asyncio.wait_for(ws.recv(), timeout=30.0)` of
\* wait_for_completion: when the frame has arrived and _run has not been
\* resumed yet, the wait_for of Python before 3.12 returns the frame and
\* the CancelledError is dropped, so _run goes on and stop() stays
\* suspended until _run leaves at `while self._running`; the wait_for of
\* later versions raises it.  Both outcomes are steps of the model.
\* When self._task was cancelled by an earlier stop(), this stop() is
\* suspended with it while the task has not run to its end, and goes
\* through `await self._task` without a suspension once it has.
\* A stop() that is not suspended returns in this step (self._task = None
\* when there was a task); called through stop_worker, the worker is
\* dropped in the same step, and with it the calls suspended on it: on a
\* worker with no task left (self._task None, an earlier stop() having
\* written it) stop_worker goes through stop() without a suspension and
\* writes `_worker = None`, so the next get_worker() builds a worker the
\* suspended calls do not know.  At most MaxStops calls are suspended.
stop ==
    /\ running' = FALSE
    /\ \/ /\ wtask # 0
          /\ Stops(awaited) < MaxStops
          /\ \/ loop' = [loop EXCEPT ![wtask] = DeadLoop]
             \/ /\ loop[wtask].pc = "wait"
                /\ UNCHANGED loop
          /\ awaited' = [awaited EXCEPT ![wtask].cur = @ + 1]
          /\ stopping' = TRUE
          /\ UNCHANGED << wtask, orphans >>
       \/ /\ IF wtask = 0 THEN TRUE ELSE loop[wtask].pc = "dead"
          /\ wtask' = 0
          /\ \/ UNCHANGED << awaited, orphans >>
             \/ /\ orphans' = Dropped(FALSE)
                /\ awaited' = Stale(awaited)
          /\ UNCHANGED << loop, stopping >>
    /\ UNCHANGED << tasks, idVars, apiVars, histVars, renderVars,
                    uploadVars, remoteVars, waitVars, metaVars >>

\* stop() called when no stop() is mid-await (the lifespan calls
\* start_worker and stop_worker one after the other).
StopBegin ==
    /\ ~stopping
    /\ stop

\* BackgroundWorker.stop after the await, which returns once the awaited
\* _run task has ended: self._task = None, on the worker the stop() was
\* called on.  Called through stop_worker, `_worker = None` follows in the
\* same step, whichever worker the module has by then.
StopEnd ==
    /\ \E l \in Loops :
        /\ loop[l].pc = "dead"
        /\ \/ /\ awaited[l].cur > 0
              /\ wtask' = 0
              /\ LET aw == [awaited EXCEPT ![l].cur = @ - 1] IN
                 \/ /\ awaited' = aw
                    /\ UNCHANGED << running, orphans >>
                 \/ /\ awaited' = Stale(aw)
                    /\ running' = FALSE
                    /\ orphans' = Dropped(running)
           \/ /\ awaited[l].old > 0
              /\ LET aw == [awaited EXCEPT ![l].old = @ - 1] IN
                 \/ /\ awaited' = aw
                    /\ UNCHANGED << running, wtask, orphans >>
                 \/ /\ awaited' = Stale(aw)
                    /\ wtask' = 0
                    /\ running' = FALSE
                    /\ orphans' = Dropped(running)
    /\ stopping' = (Stops(awaited') > 0)
    /\ UNCHANGED << tasks, idVars, loop, apiVars, histVars, renderVars,
                    uploadVars, remoteVars, waitVars, metaVars >>

\* The step of _process_task that raised: the handler of
\* _process_pending_tasks is entered with str(e).
Raise(l, msg) == [loop[l] EXCEPT !.pc = "fail", !.err = msg]

\* _run, created or back from its sleep: `while self._running`; when it is
\* True, _process_pending_tasks is entered and suspended in
\* get_pending_tasks(limit=1).
RunLoop(l) ==
    /\ loop[l].pc = "idle"
    /\ IF ~Running(l)
       THEN /\ loop' = [loop EXCEPT ![l] = DeadLoop]
            /\ orphans' = [m \in (DOMAIN orphans) \ {l} |-> orphans[m]]
       ELSE /\ loop' = [loop EXCEPT ![l].pc = "poll"]
            /\ UNCHANGED orphans
    /\ UNCHANGED << tasks, idVars, running, wtask, stopping, awaited,
                    apiVars, histVars, renderVars, uploadVars, remoteVars,
                    waitVars, metaVars >>

\* _process_pending_tasks: the SELECT of get_pending_tasks(limit=1) runs
\* and its result comes back; with no pending task the loop sleeps.
RunPoll(l) ==
    /\ loop[l].pc = "poll"
    /\ \E s \in get_pending_tasks(tasks, 1) :
        IF s = << >>
        THEN /\ loop' = [loop EXCEPT ![l] = IdleLoop]
             /\ UNCHANGED << claimed, reclaimed >>
        ELSE /\ loop' = [loop EXCEPT ![l] =
                    [@ EXCEPT !.pc = "get", !.task_id = s[1]]]
             /\ claimed' = claimed \cup {s[1]}
             /\ reclaimed' = IF s[1] \in claimed
                             THEN reclaimed \cup {s[1]} ELSE reclaimed
    /\ UNCHANGED << tasks, idVars, running, wtask, stopping, apiVars, queued,
                    clientVars >>

\* _process_task: task_manager.get_task; a missing task ends the iteration.
ProcGetTask(l) ==
    /\ loop[l].pc = "get"
    /\ loop' = [loop EXCEPT ![l] =
            IF get_task(tasks, loop[l].task_id) = None
            THEN IdleLoop
            ELSE [@ EXCEPT !.pc = "set_processing"]]
    /\ UNCHANGED << tasks, idVars, running, wtask, stopping, apiVars, histVars,
                    clientVars >>

\* update_task_status(task_id, PROCESSING, progress=0)
ProcSetProcessing(l) ==
    /\ loop[l].pc = "set_processing"
    /\ tasks' = update_task_status(tasks, loop[l].task_id, PROCESSING, Some(0))
    /\ loop' = [loop EXCEPT ![l].pc = "storage_get"]
    /\ UNCHANGED << idVars, running, wtask, stopping, apiVars, histVars,
                    clientVars >>

\* storage.get_task: its SELECT runs; RuntimeError when the row is gone.
\* With the row, _process_task holds task_db and is resumed later, so a
\* DELETE can take the row before the workflow goes to queue_prompt.
ProcStorageGet(l) ==
    /\ loop[l].pc = "storage_get"
    /\ loop' = [loop EXCEPT ![l] =
            IF get_task(tasks, loop[l].task_id) = None
            THEN Raise(l, ErrNotInStorage)
            ELSE [@ EXCEPT !.pc = "queue"]]
    /\ UNCHANGED << tasks, idVars, running, wtask, stopping, apiVars, histVars,
                    clientVars >>

\* comfyui_client.queue_prompt(task_db.workflow): the POST of the workflow
\* read before, answered with a prompt id or an HTTP error.
\* `last_progress = [0]` follows the call.
ProcQueuePrompt(l) ==
    /\ loop[l].pc = "queue"
    /\ queued' = queued \cup {loop[l].task_id}
    /\ \E ok \in BOOLEAN :
        loop' = [loop EXCEPT ![l] =
            IF ok THEN [@ EXCEPT !.pc = "wait"] ELSE Raise(l, ErrQueue)]
    /\ last_progress' = 0
    /\ UNCHANGED << tasks, idVars, running, wtask, stopping, apiVars, claimed,
                    reclaimed, node_ids, history, events, uploadVars,
                    remoteVars, otherVars >>

\* comfyui_client.wait_for_completion raises TimeoutError or the execution
\* error, or its get_history raises the HTTP error of the request or finds
\* no entry of the prompt (RuntimeError), or it returns the history;
\* get_outputs_for_nodes then finds n images, and none is a RuntimeError.
ProcWait(l) ==
    /\ loop[l].pc = "wait"
    /\ \E out \in {"done"} \cup WaitErrors, n \in 0..MaxImages :
        loop' = [loop EXCEPT ![l] =
            IF out # "done" THEN Raise(l, out)
            ELSE IF n = 0 THEN Raise(l, ErrNoOutputs)
            ELSE [@ EXCEPT !.pc = "set_uploading", !.n = n]]
    /\ UNCHANGED << tasks, idVars, running, wtask, stopping, apiVars, histVars,
                    clientVars >>

\* update_task_status(task_id, UPLOADING, progress=80)
ProcSetUploading(l) ==
    /\ loop[l].pc = "set_uploading"
    /\ tasks' = update_task_status(tasks, loop[l].task_id, UPLOADING,
                                   Some(UPLOADING_PROGRESS))
    /\ loop' = [loop EXCEPT ![l].pc = "download"]
    /\ UNCHANGED << idVars, running, wtask, stopping, apiVars, histVars,
                    clientVars >>

\* The get_image calls, one per output: the image bytes, or an HTTP error.
ProcDownload(l) ==
    /\ loop[l].pc = "download"
    /\ \E ok \in BOOLEAN :
        loop' = [loop EXCEPT ![l] =
            IF ok THEN [@ EXCEPT !.pc = "upload"] ELSE Raise(l, ErrDownload)]
    /\ UNCHANGED << tasks, idVars, running, wtask, stopping, apiVars, histVars,
                    clientVars >>

\* upload_and_attach_images, the upload_image calls, one per image: the
\* file tokens, or the error of the image whose retries are used up, which
\* is the RuntimeError of a refused upload or the exception the request
\* raised last.
ProcUpload(l) ==
    /\ loop[l].pc = "upload"
    /\ \E out \in {"ok", ErrUpload, ErrTransport} :
        loop' = [loop EXCEPT ![l] =
            IF out = "ok" THEN [@ EXCEPT !.pc = "attach"] ELSE Raise(l, out)]
    /\ UNCHANGED << tasks, idVars, running, wtask, stopping, apiVars, histVars,
                    clientVars >>

\* upload_and_attach_images: update_record or create_record with the
\* attachment list; a non-success response is a RuntimeError.
ProcAttach(l) ==
    /\ loop[l].pc = "attach"
    /\ \E ok \in BOOLEAN :
        loop' = [loop EXCEPT ![l] =
            IF ok THEN [@ EXCEPT !.pc = "complete"] ELSE Raise(l, ErrRecord)]
    /\ UNCHANGED << tasks, idVars, running, wtask, stopping, apiVars, histVars,
                    clientVars >>

\* The TaskResult of _process_task: one ImageResult per downloaded image.
TaskResult(n) == [images |-> n, feishu_record_id |-> "rec"]

\* task_manager.complete_task(task_id, result), then the loop sleeps.
ProcComplete(l) ==
    /\ loop[l].pc = "complete"
    /\ tasks' = complete_task(tasks, loop[l].task_id, TaskResult(loop[l].n))
    /\ loop' = [loop EXCEPT ![l] = IdleLoop]
    /\ UNCHANGED << idVars, running, wtask, stopping, apiVars, histVars,
                    clientVars >>

\* _process_pending_tasks, `except Exception as e`:
\* task_manager.fail_task(task.task_id, str(e)), then the loop sleeps.
ProcFail(l) ==
    /\ loop[l].pc = "fail"
    /\ tasks' = fail_task(tasks, loop[l].task_id, loop[l].err)
    /\ loop' = [loop EXCEPT ![l] = IdleLoop]
    /\ UNCHANGED << idVars, running, wtask, stopping, apiVars, histVars,
                    clientVars >>

Worker(l) ==
    \/ RunLoop(l)
    \/ RunPoll(l)
    \/ ProcGetTask(l)
    \/ ProcSetProcessing(l)
    \/ ProcStorageGet(l)
    \/ ProcQueuePrompt(l)
    \/ ProcWait(l)
    \/ ProcSetUploading(l)
    \/ ProcDownload(l)
    \/ ProcUpload(l)
    \/ ProcAttach(l)
    \/ ProcComplete(l)
    \/ ProcFail(l)

Next ==
    \/ Tick
    \/ ApiCreateTask
    \/ \E c \in Cancels : ApiCancelRead(c)
    \/ \E c \in Cancels : ApiCancelManager(c)
    \/ \E c \in Cancels : ApiCancelDelete(c)
    \/ Start
    \/ StopBegin
    \/ StopEnd
    \/ \E l \in Loops : Worker(l)

Spec == Init /\ [][Next]_vars

\* ------------------------------------------- the completion wait, in full

\* The output_node_ids a request may carry: any list of node ids.
NodeIdLists == UNION { [1..k -> Nodes] : k \in 0..MaxNodes }

\* The "images" list of one node's output: its filenames.
ImageLists == { [i \in 1..k |-> i] : k \in 0..MaxImages }

\* The "outputs" of a history entry: the nodes that produced output, each
\* with its images.
Histories == UNION { [S -> ImageLists] : S \in SUBSET Nodes }

\* One image per matched node, whatever number of images the node produced.
RECURSIVE get_outputs_one_per_node(_, _)
get_outputs_one_per_node(outputs, ids) ==
    IF ids = << >> THEN << >>
    ELSE (IF Head(ids) \in DOMAIN outputs
          THEN << [node_id |-> Head(ids), filename |-> 1] >>
          ELSE << >>)
         \o get_outputs_one_per_node(outputs, Tail(ids))

\* ComfyUIClient.get_outputs_for_nodes: for each requested node id, in the
\* order of the request, the images of that node's output; a node id with
\* no output is skipped.
RECURSIVE get_outputs_for_nodes(_, _)
get_outputs_for_nodes(outputs, ids) ==
    IF ids = << >> THEN << >>
    ELSE LET node_id == Head(ids)
             node_images == IF node_id \in DOMAIN outputs
                            THEN outputs[node_id] ELSE << >>
         IN [i \in 1..Len(node_images) |->
                [node_id |-> node_id, filename |-> node_images[i]]]
            \o get_outputs_for_nodes(outputs, Tail(ids))

\* The pairs value, max_value up to 64 for which the double
\* (value / max_value) * 100 lies below the exact quotient's integer part:
\* 29 / 50 * 100 is 57.99999999999999.
FloatBelow ==
    { << 23, 5 >>, << 41, 5 >>, << 46, 5 >>, << 51, 5 >>,
      << 23, 10 >>, << 41, 10 >>, << 46, 10 >>, << 51, 10 >>,
      << 23, 20 >>, << 41, 20 >>, << 46, 20 >>, << 51, 20 >>,
      << 29, 25 >>, << 57, 25 >>, << 58, 25 >>, << 46, 40 >>,
      << 29, 50 >>, << 57, 50 >>, << 58, 50 >> }

\* wait_for_completion, a "progress" message:
\* int((value / max_value) * 100) if max_value > 0 else 0
\* The division and the product are those of doubles and int() cuts the
\* fraction off: the integer quotient, or one less for a pair of
\* FloatBelow (value and max_value up to 64).
progress_of(value, max_value) ==
    IF max_value > 0
    THEN (value * 100) \div max_value
            - (IF << value, max_value >> \in FloatBelow THEN 1 ELSE 0)
    ELSE 0

\* wait_for_completion receives a "progress" message of the prompt and
\* calls progress_callback(progress), which stores it in last_progress[0].
WaitProgress(l) ==
    /\ loop[l].pc = "wait"
    /\ events < MaxEvents
    /\ \E value, max_value \in 0..MaxValue :
          last_progress' = progress_of(value, max_value)
    /\ events' = events + 1
    /\ UNCHANGED << tasks, idVars, workerVars, apiVars, histVars,
                    node_ids, history, uploadVars, remoteVars,
                    otherVars >>

\* The wait returning with the task taken on to the upload whatever number
\* of images its selectors yield.
WaitReturn_noempty(l) ==
    /\ loop[l].pc = "wait"
    /\ \E out \in {"done"} \cup WaitErrors :
        IF out # "done"
        THEN /\ loop' = [loop EXCEPT ![l] = Raise(l, out)]
             /\ UNCHANGED history
        ELSE \E h \in Histories :
             LET outputs == get_outputs_for_nodes(h, node_ids) IN
             /\ history' = h
             /\ loop' = [loop EXCEPT ![l] =
                    [@ EXCEPT !.pc = "set_uploading", !.n = Len(outputs)]]
    /\ UNCHANGED << tasks, idVars, running, wtask, stopping, apiVars, histVars,
                    node_ids, last_progress, events, uploadVars, remoteVars,
                    otherVars >>

\* wait_for_completion ends: TimeoutError, the execution error, the HTTP
\* error of get_history, the RuntimeError of a history without the prompt,
\* or the history entry of the prompt, from which get_outputs_for_nodes
\* takes the images of task_db.output_node_ids; no image is a RuntimeError.
WaitReturn(l) ==
    /\ loop[l].pc = "wait"
    /\ \E out \in {"done"} \cup WaitErrors :
        IF out # "done"
        THEN /\ loop' = [loop EXCEPT ![l] = Raise(l, out)]
             /\ UNCHANGED history
        ELSE \E h \in Histories :
             LET outputs == get_outputs_for_nodes(h, node_ids) IN
             /\ history' = h
             /\ loop' = [loop EXCEPT ![l] =
                    IF outputs = << >> THEN Raise(l, ErrNoOutputs)
                    ELSE [@ EXCEPT !.pc = "set_uploading", !.n = Len(outputs)]]
    /\ UNCHANGED << tasks, idVars, running, wtask, stopping, apiVars, histVars,
                    node_ids, last_progress, events, uploadVars, remoteVars,
                    otherVars >>

\* One task, submitted with some output_node_ids, and the worker started.
InitRender ==
    /\ tasks = create_task(<< >>, 1, 0)
    /\ used = {1}
    /\ clock = 0
    /\ running = TRUE
    /\ wtask = 1
    /\ stopping = FALSE
    /\ loop = [l \in Loops |-> IF l = 1 THEN IdleLoop ELSE DeadLoop]
    /\ cancel = [c \in Cancels |-> IdleCancel]
    /\ response = 0
    /\ claimed = {}
    /\ reclaimed = {}
    /\ queued = {}
    /\ node_ids \in NodeIdLists
    /\ history = << >>
    /\ last_progress = 0
    /\ events = 0
    /\ NoUpload
    /\ NoWait
    /\ NoMeta
    /\ NoStop

NextRender ==
    \E l \in Loops :
        \/ RunLoop(l)
        \/ RunPoll(l)
        \/ ProcGetTask(l)
        \/ ProcSetProcessing(l)
        \/ ProcStorageGet(l)
        \/ ProcQueuePrompt(l)
        \/ WaitProgress(l)
        \/ WaitReturn(l)
        \/ ProcSetUploading(l)
        \/ ProcDownload(l)
        \/ ProcUpload(l)
        \/ ProcAttach(l)
        \/ ProcComplete(l)
        \/ ProcFail(l)

SpecRender == InitRender /\ [][NextRender]_vars

\* ------------------------------------ upload_and_attach_images, in full

\* Backoff that grows by one second per attempt.
wait_time_linear(a) == a + 1

\* upload_image: wait_time = 2 ** attempt
wait_time(a) == 2 ^ a

\* str(last_error) of a failed attempt: the RuntimeError built from a
\* non-success response, or the exception the request raised.
error_of(out) == IF out = "response" THEN ErrUpload ELSE ErrTransport

\* The attachment list with every new token listed twice.
new_attachments_twice(tokens) ==
    [i \in 1..(2 * Len(tokens)) |-> [file_token |-> tokens[(i + 1) \div 2]]]

\* new_attachments = [{"file_token": token} for token in file_tokens]
new_attachments(tokens) ==
    [i \in 1..Len(tokens) |-> [file_token |-> tokens[i]]]

\* existing_attachments: of the entries read from the field, those that
\* carry a file_token, each cut down to its file_token, in their order.
existing_of(existing_images) ==
    LET kept == SelectSeq(existing_images,
                          LAMBDA img : "file_token" \in DOMAIN img)
    IN [i \in 1..Len(kept) |-> [file_token |-> kept[i].file_token]]

\* The merge dropping what was read.
all_attachments_overwrite(existing, new) == new

\* all_attachments = existing_attachments + new_attachments
all_attachments(existing, new) == existing \o new

\* What Bitable holds in the field after {image_field: fields} is written:
\* one attachment per file token, with the attributes Drive has for it.
Stored(fields) ==
    [i \in 1..Len(fields) |->
        [file_token |-> fields[i].file_token, name |-> "image"]]

\* The attachment lists a record may hold before the call: media uploaded
\* earlier, in any order.
PriorLists ==
    { Stored(new_attachments(g)) :
        g \in { f \in UNION { [1..k -> 1..MaxPrior] : k \in 0..MaxPrior } :
                  \A a, b \in DOMAIN f : a # b => f[a] # f[b] } }

\* One attempt of upload_image for the artifact after the file_tokens
\* uploaded so far: the request succeeds (Drive stores the media and hands
\* out its token), answers with a non-success response, or raises.  A
\* failed attempt that is not the last calls asyncio.sleep(wait_time) and
\* is suspended in it, attempt as it was; the last one ends the call with
\* `raise last_error`.  A success appends the token; after the last
\* artifact the call goes on to the record.
UploadImage(l) ==
    /\ loop[l].pc = "upload"
    /\ \E out \in {"ok", "response", "exception"} :
        LET first == outcomes = << >> \/ outcomes[Len(outcomes)] = "ok"
            a == IF first THEN 0 ELSE attempt
            slept == IF first THEN << >> ELSE sleeps
            token == Cardinality(drive) + 1
        IN
        /\ outcomes' = IF first THEN << out >> ELSE Append(outcomes, out)
        /\ IF out = "ok"
           THEN /\ file_tokens' = Append(file_tokens, token)
                /\ drive' = drive \cup {token}
                /\ tries' = Append(tries, a + 1)
                /\ attempt' = a
                /\ last_error' = IF first THEN None ELSE last_error
                /\ sleeps' = slept
                /\ loop' = [loop EXCEPT ![l].pc =
                        IF Len(file_tokens) + 1 < loop[l].n THEN "upload"
                        ELSE IF record_id # None THEN "read"
                        ELSE "attach"]
           ELSE /\ last_error' = Some(error_of(out))
                /\ UNCHANGED << file_tokens, drive >>
                /\ IF a < MAX_RETRIES
                   THEN /\ sleeps' = Append(slept, wait_time(a))
                        /\ attempt' = a
                        /\ loop' = [loop EXCEPT ![l].pc = "sleep"]
                        /\ UNCHANGED tries
                   ELSE /\ sleeps' = slept
                        /\ attempt' = a
                        /\ tries' = Append(tries, a + 1)
                        /\ loop' = [loop EXCEPT ![l] =
                                Raise(l, last_error'[1])]
    /\ UNCHANGED << tasks, idVars, running, wtask, stopping, apiVars, histVars,
                    renderVars, record_id, existing_attachments, returned,
                    record, calls, otherVars >>

\* upload_image: asyncio.sleep(wait_time) is over, and the for loop goes
\* on to the next attempt.
UploadSleep(l) ==
    /\ loop[l].pc = "sleep"
    /\ attempt' = attempt + 1
    /\ loop' = [loop EXCEPT ![l].pc = "upload"]
    /\ UNCHANGED << tasks, idVars, running, wtask, stopping, apiVars, histVars,
                    renderVars, record_id, file_tokens, last_error, sleeps,
                    outcomes, tries, existing_attachments, returned, drive,
                    record, calls, otherVars >>

\* get_record failing as an error of the whole call.
GetRecord_fatal(l) ==
    /\ loop[l].pc = "read"
    /\ \E ok \in { b \in BOOLEAN : b => record_id[1] \in DOMAIN record } :
        /\ calls' = Append(calls,
                [op |-> "get", ok |-> ok,
                 fields |-> IF ok THEN record[record_id[1]] ELSE << >>])
        /\ IF ok
           THEN /\ existing_attachments' = existing_of(record[record_id[1]])
                /\ loop' = [loop EXCEPT ![l].pc = "attach"]
           ELSE /\ UNCHANGED existing_attachments
                /\ loop' = [loop EXCEPT ![l] = Raise(l, ErrRead)]
    /\ UNCHANGED << tasks, idVars, running, wtask, stopping, apiVars, histVars,
                    renderVars, record_id, file_tokens, attempt, last_error,
                    sleeps, outcomes, tries, returned, drive, record,
                    otherVars >>

\* upload_and_attach_images with a record_id: get_record returns the
\* record's fields, of which the image field's entries become
\* existing_attachments; when it raises (a non-success response, no such
\* record, a transport error) the handler logs a warning and
\* existing_attachments stays [].
GetRecord(l) ==
    /\ loop[l].pc = "read"
    /\ \E ok \in { b \in BOOLEAN : b => record_id[1] \in DOMAIN record } :
        /\ calls' = Append(calls,
                [op |-> "get", ok |-> ok,
                 fields |-> IF ok THEN record[record_id[1]] ELSE << >>])
        /\ existing_attachments' =
                IF ok THEN existing_of(record[record_id[1]]) ELSE << >>
    /\ loop' = [loop EXCEPT ![l].pc = "attach"]
    /\ UNCHANGED << tasks, idVars, running, wtask, stopping, apiVars, histVars,
                    renderVars, record_id, file_tokens, attempt, last_error,
                    sleeps, outcomes, tries, returned, drive, record,
                    otherVars >>

\* upload_and_attach_images: the merged list is written with update_record
\* to the record named, or with create_record to a new record; a
\* non-success response is a RuntimeError, a success returns the record id
\* and the file tokens.
WriteRecord(l) ==
    /\ loop[l].pc = "attach"
    /\ LET fields == all_attachments(existing_attachments,
                                     new_attachments(file_tokens))
           op == IF record_id # None THEN "update" ELSE "create"
           rid == IF record_id # None THEN record_id[1]
                  ELSE Cardinality(DOMAIN record) + 1
       IN \E ok \in { b \in BOOLEAN :
                        (b /\ op = "update") => rid \in DOMAIN record } :
            /\ calls' = Append(calls, [op |-> op, ok |-> ok, fields |-> fields])
            /\ IF ok
               THEN /\ record' = [r \in (DOMAIN record) \cup {rid} |->
                                    IF r = rid THEN Stored(fields) ELSE record[r]]
                    /\ returned' = Some(<< rid, file_tokens >>)
                    /\ loop' = [loop EXCEPT ![l].pc = "complete"]
               ELSE /\ UNCHANGED << record, returned >>
                    /\ loop' = [loop EXCEPT ![l] = Raise(l, ErrRecord)]
    /\ UNCHANGED << tasks, idVars, running, wtask, stopping, apiVars, histVars,
                    renderVars, record_id, file_tokens, attempt, last_error,
                    sleeps, outcomes, tries, existing_attachments, drive,
                    otherVars >>

\* A task whose images are downloaded, at the call of
\* upload_and_attach_images: the n images, the record_id of its
\* feishu_config, and what Drive and the table hold.
InitUpload ==
    /\ tasks = update_task_status(
                 update_task_status(create_task(<< >>, 1, 0),
                                    1, PROCESSING, Some(0)),
                 1, UPLOADING, Some(UPLOADING_PROGRESS))
    /\ used = {1}
    /\ clock = 0
    /\ running = TRUE
    /\ wtask = 1
    /\ stopping = FALSE
    /\ \E n \in 1..MaxImages :
          loop = [l \in Loops |->
                    IF l = 1
                    THEN [pc |-> "upload", task_id |-> 1, err |-> "", n |-> n]
                    ELSE DeadLoop]
    /\ cancel = [c \in Cancels |-> IdleCancel]
    /\ response = 0
    /\ claimed = {1}
    /\ reclaimed = {}
    /\ queued = {1}
    /\ NoRender
    /\ record_id \in {None, Some(1)}
    /\ file_tokens = << >>
    /\ attempt = 0
    /\ last_error = None
    /\ sleeps = << >>
    /\ outcomes = << >>
    /\ tries = << >>
    /\ existing_attachments = << >>
    /\ returned = None
    /\ drive = 1..MaxPrior
    /\ record \in {<< >>} \cup { [r \in {1} |-> p] : p \in PriorLists }
    /\ calls = << >>
    /\ NoWait
    /\ NoMeta
    /\ NoStop

NextUpload ==
    \E l \in Loops :
        \/ UploadImage(l)
        \/ UploadSleep(l)
        \/ GetRecord(l)
        \/ WriteRecord(l)
        \/ ProcComplete(l)
        \/ ProcFail(l)
        \/ RunLoop(l)
        \/ RunPoll(l)

SpecUpload == InitUpload /\ [][NextUpload]_vars

\* ------------------------------------------- wait_for_completion, in full

\* The timeout a call may be given, in seconds.
Timeouts == { (k * RECV_TIMEOUT) \div 2 : k \in 0..MaxTimeout }

\* The clock is followed up to this time: a wait that began by Quantum has
\* by then found its longest timeout exceeded, after a last ws.recv() that
\* began within it and ran for its 30 s.
MaxTime == (MaxTimeout * RECV_TIMEOUT) \div 2 + RECV_TIMEOUT + Quantum

\* The prompt id queue_prompt returned, and the prompt of another client.
prompt_id == "prompt"
PromptIds == { prompt_id, "other prompt" }

\* value and max of a "progress" message.
ProgressPairs == ((0..MaxValue) \X ((0 - 1)..MaxMax)) \cup { << 29, 50 >> }

\* The messages of the engine, decoded: type, and of data the prompt_id,
\* the node (None for null or absent), value and max.
Messages ==
    { [type |-> "progress", prompt_id |-> p, node |-> None,
       value |-> vm[1], max |-> vm[2]] :
          p \in PromptIds, vm \in ProgressPairs }
    \cup
    { [type |-> "executing", prompt_id |-> p, node |-> n,
       value |-> 0, max |-> 0] :
          p \in PromptIds, n \in {None, Some(1)} }
    \cup
    { [type |-> ty, prompt_id |-> p, node |-> None, value |-> 0, max |-> 0] :
          ty \in {"execution_error", "status"}, p \in PromptIds }

\* The messages that end the wait for prompt_id.
Terminal ==
    { m \in Messages :
        /\ m.prompt_id = prompt_id
        /\ \/ m.type = "executing" /\ m.node = None
           \/ m.type = "execution_error" }

\* The event loop's clock, time.monotonic(): it never goes back, and it
\* goes on by any amount, none included, between two things the coroutine
\* does: while it is suspended in websockets.connect, between two
\* statements of the loop (a reading of the clock equals the one before
\* when the clock has not ticked in between, and is later otherwise), and
\* in wait_for(ws.recv(), timeout=30.0) until the timer of that call is
\* due; the time that passes before the coroutine is resumed then is
\* time between two statements.
Pass ==
    /\ time < MaxTime
    /\ \E l \in Loops : loop[l].pc = "wait"
    /\ \/ wpc = "none" /\ time < Quantum
       \/ wpc = "top"
       \/ wpc = "recv" /\ time - recv_since < RECV_TIMEOUT
    /\ time' = time + Quantum
    /\ UNCHANGED << tasks, idVars, workerVars, apiVars, histVars, renderVars,
                    uploadVars, remoteVars, timeout, start_time, elapsed,
                    recv_since, wpc, message, callback, silences,
                    metaVars, stopVars >>

\* websockets.connect returns; start_time = loop.time()
WaitConnect(l) ==
    /\ loop[l].pc = "wait"
    /\ wpc = "none"
    /\ start_time' = time
    /\ wpc' = "top"
    /\ UNCHANGED << tasks, idVars, workerVars, apiVars, histVars, renderVars,
                    uploadVars, remoteVars, time, timeout, elapsed,
                    recv_since, message, callback, silences,
                    metaVars, stopVars >>

\* The test raising as soon as the budget is used up.
WaitCheck_early(l) ==
    /\ loop[l].pc = "wait"
    /\ wpc = "top"
    /\ elapsed' = time - start_time
    /\ IF elapsed' >= timeout
       THEN /\ loop' = [loop EXCEPT ![l] = Raise(l, ErrTimeout)]
            /\ wpc' = "timed out"
            /\ UNCHANGED recv_since
       ELSE /\ wpc' = "recv"
            /\ recv_since' = time
            /\ UNCHANGED loop
    /\ UNCHANGED << tasks, idVars, running, wtask, stopping, apiVars, histVars,
                    renderVars, uploadVars, remoteVars, time, timeout,
                    start_time, message, callback, silences,
                    metaVars, stopVars >>

\* The head of `while True`: elapsed = loop.time() - start_time, and
\* TimeoutError if elapsed > timeout; otherwise ws.recv() is awaited.  The
\* reading is the clock's value at this step, the one of the reading
\* before or a later one.
WaitCheck(l) ==
    /\ loop[l].pc = "wait"
    /\ wpc = "top"
    /\ elapsed' = time - start_time
    /\ IF elapsed' > timeout
       THEN /\ loop' = [loop EXCEPT ![l] = Raise(l, ErrTimeout)]
            /\ wpc' = "timed out"
            /\ UNCHANGED recv_since
       ELSE /\ wpc' = "recv"
            /\ recv_since' = time
            /\ UNCHANGED loop
    /\ UNCHANGED << tasks, idVars, running, wtask, stopping, apiVars, histVars,
                    renderVars, uploadVars, remoteVars, time, timeout,
                    start_time, message, callback, silences,
                    metaVars, stopVars >>

\* The message handled whatever prompt it is about.
Recv_anyprompt(l, m) ==
    /\ loop[l].pc = "wait"
    /\ wpc = "recv"
    /\ message' = m
    /\ IF m.type = "progress"
       THEN /\ callback' = Some(progress_of(m.value, m.max))
            /\ last_progress' = progress_of(m.value, m.max)
            /\ wpc' = "top"
            /\ UNCHANGED loop
       ELSE IF m.type = "executing" /\ m.node = None
       THEN /\ wpc' = "history"
            /\ UNCHANGED << callback, last_progress, loop >>
       ELSE IF m.type = "execution_error"
       THEN /\ loop' = [loop EXCEPT ![l] = Raise(l, ErrExecution)]
            /\ wpc' = "failed"
            /\ UNCHANGED << callback, last_progress >>
       ELSE /\ wpc' = "top"
            /\ UNCHANGED << callback, last_progress, loop >>
    /\ UNCHANGED << tasks, idVars, running, wtask, stopping, apiVars, histVars,
                    node_ids, history, events, uploadVars, remoteVars, time,
                    timeout, start_time, elapsed, recv_since, silences,
                    metaVars, stopVars >>

\* ws.recv() returns message m.  A "progress" message of prompt_id calls
\* progress_callback with the percentage, an "executing" message of
\* prompt_id with no node breaks out of the loop, an "execution_error"
\* message of prompt_id is a RuntimeError; after any other message, and
\* after the progress message, the loop goes round.
Recv(l, m) ==
    /\ loop[l].pc = "wait"
    /\ wpc = "recv"
    /\ message' = m
    /\ IF m.type = "progress" /\ m.prompt_id = prompt_id
       THEN /\ callback' = Some(progress_of(m.value, m.max))
            /\ last_progress' = progress_of(m.value, m.max)
            /\ wpc' = "top"
            /\ UNCHANGED loop
       ELSE IF m.type = "executing" /\ m.prompt_id = prompt_id
                                   /\ m.node = None
       THEN /\ wpc' = "history"
            /\ callback' = None
            /\ UNCHANGED << last_progress, loop >>
       ELSE IF m.type = "execution_error" /\ m.prompt_id = prompt_id
       THEN /\ loop' = [loop EXCEPT ![l] = Raise(l, ErrExecution)]
            /\ wpc' = "failed"
            /\ callback' = None
            /\ UNCHANGED last_progress
       ELSE /\ wpc' = "top"
            /\ callback' = None
            /\ UNCHANGED << last_progress, loop >>
    /\ UNCHANGED << tasks, idVars, running, wtask, stopping, apiVars, histVars,
                    node_ids, history, events, uploadVars, remoteVars, time,
                    timeout, start_time, elapsed, recv_since, silences,
                    metaVars, stopVars >>

\* The engine sends a message.
WaitRecv(l) == \E m \in Messages : Recv(l, m)

\* The engine sends a message that is not the end of the prompt.
WaitRecvNonTerminal(l) == \E m \in Messages \ Terminal : Recv(l, m)

\* The inactivity timeout taken as the end of the budget.
WaitRecvTimeout_fatal(l) ==
    /\ loop[l].pc = "wait"
    /\ wpc = "recv"
    /\ time - recv_since >= RECV_TIMEOUT
    /\ loop' = [loop EXCEPT ![l] = Raise(l, ErrTimeout)]
    /\ wpc' = "timed out"
    /\ message' = None
    /\ callback' = None
    /\ silences' = silences + 1
    /\ UNCHANGED << tasks, idVars, running, wtask, stopping, apiVars, histVars,
                    renderVars, uploadVars, remoteVars, time, timeout,
                    start_time, elapsed, recv_since, metaVars, stopVars >>

\* wait_for(ws.recv(), timeout=30.0) raises asyncio.TimeoutError after 30
\* seconds without a message: `continue`.
WaitRecvTimeout(l) ==
    /\ loop[l].pc = "wait"
    /\ wpc = "recv"
    /\ time - recv_since >= RECV_TIMEOUT
    /\ wpc' = "top"
    /\ message' = None
    /\ callback' = None
    /\ silences' = silences + 1
    /\ UNCHANGED << tasks, idVars, workerVars, apiVars, histVars,
                    renderVars, uploadVars, remoteVars, time, timeout,
                    start_time, elapsed, recv_since, metaVars, stopVars >>

\* After the loop: get_history(prompt_id), which raises the HTTP error of
\* its request, and a RuntimeError when the prompt is not in the history;
\* the entry goes back to _process_task, which takes the
\* images of task_db.output_node_ids from it.
WaitHistory(l) ==
    /\ loop[l].pc = "wait"
    /\ wpc = "history"
    /\ \E out \in {"found", ErrGetHistory, ErrHistory} :
        IF out # "found"
        THEN /\ loop' = [loop EXCEPT ![l] = Raise(l, out)]
             /\ wpc' = "failed"
             /\ UNCHANGED history
        ELSE \E h \in Histories :
             LET outputs == get_outputs_for_nodes(h, node_ids) IN
             /\ history' = h
             /\ wpc' = "returned"
             /\ loop' = [loop EXCEPT ![l] =
                    IF outputs = << >> THEN Raise(l, ErrNoOutputs)
                    ELSE [@ EXCEPT !.pc = "set_uploading", !.n = Len(outputs)]]
    /\ UNCHANGED << tasks, idVars, running, wtask, stopping, apiVars, histVars,
                    node_ids, last_progress, events, uploadVars, remoteVars,
                    time, timeout, start_time, elapsed, recv_since, message,
                    callback, silences, metaVars, stopVars >>

\* A task at the call of wait_for_completion: its workflow is queued, the
\* call has its timeout, and no message has been read.
InitWait ==
    /\ tasks = update_task_status(create_task(<< >>, 1, 0),
                                  1, PROCESSING, Some(0))
    /\ used = {1}
    /\ clock = 0
    /\ running = TRUE
    /\ wtask = 1
    /\ stopping = FALSE
    /\ loop = [l \in Loops |->
                 IF l = 1
                 THEN [pc |-> "wait", task_id |-> 1, err |-> "", n |-> 0]
                 ELSE DeadLoop]
    /\ cancel = [c \in Cancels |-> IdleCancel]
    /\ response = 0
    /\ claimed = {1}
    /\ reclaimed = {}
    /\ queued = {1}
    /\ node_ids = << 1 >>
    /\ history = << >>
    /\ last_progress = 0
    /\ events = 0
    /\ NoUpload
    /\ time = 0
    /\ timeout \in Timeouts
    /\ start_time = 0
    /\ elapsed = 0
    /\ recv_since = 0
    /\ wpc = "none"
    /\ message = None
    /\ callback = None
    /\ silences = 0
    /\ NoMeta
    /\ NoStop

NextWait ==
    \/ Pass
    \/ \E l \in Loops :
        \/ WaitConnect(l)
        \/ WaitCheck(l)
        \/ WaitRecv(l)
        \/ WaitRecvTimeout(l)
        \/ WaitHistory(l)
        \/ ProcSetUploading(l)
        \/ ProcFail(l)

SpecWait == InitWait /\ [][NextWait]_vars

\* The engine never reports the end of the prompt.
NextWaitSilent ==
    \/ Pass
    \/ \E l \in Loops :
        \/ WaitConnect(l)
        \/ WaitCheck(l)
        \/ WaitRecvNonTerminal(l)
        \/ WaitRecvTimeout(l)
        \/ ProcFail(l)

\* Time goes on, and the event loop resumes the coroutine when its
\* connection is made or its timer has run out.
SpecWaitSilent ==
    /\ InitWait
    /\ [][NextWaitSilent]_vars
    /\ WF_vars(Pass)
    /\ \A l \in Loops :
          WF_vars(WaitConnect(l) \/ WaitCheck(l) \/ WaitRecvTimeout(l))

\* ------------------------------------------------ the metadata column

\* The request.metadata a POST may carry: absent, {} or an object.
Metadatas == { None, Some(<< >>), Some([note |-> "a"]) }

\* bool(x) of an Optional[dict]: False for None and for {}.
truthy(md) == md # None /\ DOMAIN md[1] # {}

\* json.dumps of a dict, the text, and json.loads of such a text.
json_dumps(d) == [text |-> d]
json_loads(t) == t.text

\* SQLiteStorage.create_task, the metadata parameter of the INSERT:
\* json.dumps(task.metadata) if task.metadata else None
metadata_column(md) == IF truthy(md) THEN Some(json_dumps(md[1])) ELSE None

\* SQLiteStorage._row_to_task: metadata=json.loads(row[8]) if row[8] else
\* None; _to_response passes it on as TaskResponse.metadata.
row_metadata(col) == IF col # None THEN Some(json_loads(col[1])) ELSE None

\* POST /tasks with metadata md.
ApiCreateTaskMeta ==
    \E id \in TaskIds \ used, md \in Metadatas :
        /\ tasks' = create_task(tasks, id, clock)
        /\ used' = used \cup {id}
        /\ metadata' = [t \in (DOMAIN metadata) \cup {id} |->
                          IF t = id THEN metadata_column(md) ELSE metadata[t]]
        /\ supplied' = [t \in (DOMAIN supplied) \cup {id} |->
                          IF t = id THEN md ELSE supplied[t]]
        /\ UNCHANGED << clock, workerVars, apiVars, histVars, renderVars,
                        uploadVars, remoteVars, waitVars, stopVars, got >>

\* GET /tasks/{task_id}: TaskManager.get_task and _to_response; an unknown
\* id is answered 404, with no TaskResponse.
ApiGetTask ==
    \E id \in TaskIds :
        /\ got' = IF get_task(tasks, id) = None THEN None
                  ELSE Some([task_id |-> id,
                             status |-> tasks[id].status,
                             metadata |-> row_metadata(metadata[id])])
        /\ UNCHANGED << tasks, idVars, workerVars, apiVars, histVars,
                        renderVars, uploadVars, remoteVars, waitVars,
                        stopVars, metadata, supplied >>

\* An empty store and a started worker.
InitMeta ==
    /\ tasks = << >>
    /\ used = {}
    /\ clock = 0
    /\ running = TRUE
    /\ wtask = 1
    /\ stopping = FALSE
    /\ loop = [l \in Loops |-> IF l = 1 THEN IdleLoop ELSE DeadLoop]
    /\ cancel = [c \in Cancels |-> IdleCancel]
    /\ response = 0
    /\ claimed = {}
    /\ reclaimed = {}
    /\ queued = {}
    /\ NoRender
    /\ NoUpload
    /\ NoWait
    /\ NoMeta
    /\ NoStop

NextMeta ==
    \/ ApiCreateTaskMeta
    \/ ApiGetTask
    \/ \E l \in Loops : Worker(l)

SpecMeta == InitMeta /\ [][NextMeta]_vars

\* ------------------------------------------- stop and start, with progress

\* The service with its worker stopped and started any number of times,
\* and no DELETE request.
NextRestart ==
    \/ ApiCreateTask
    \/ Start
    \/ StopBegin
    \/ StopEnd
    \/ \E l \in Loops : Worker(l)

\* Every call the worker awaits returns or raises, a stop() that awaits the
\* cancelled task gets it, and the worker is started again after a stop.
SpecRestart ==
    /\ Init
    /\ [][NextRestart]_vars
    /\ WF_vars(Start)
    /\ WF_vars(StopEnd)
    /\ \A l \in Loops : WF_vars(Worker(l))

\* ------------------------------------------- start during a stop's await

\* BackgroundWorker.start called while a stop() is suspended in
\* `await self._task`: stop has set _running to False, so start sets it to
\* True again and puts a new _run task into self._task.  The task the
\* stop() awaits keeps its place among the tasks until the stop has got it.
StartDuringStop ==
    /\ stopping
    /\ ~running
    /\ \E l \in Loops \ Awaited :
        /\ loop[l].pc = "dead"
        /\ \A m \in Loops \ Awaited : m < l => loop[m].pc # "dead"
        /\ loop' = [loop EXCEPT ![l] = IdleLoop]
        /\ wtask' = l
    /\ running' = TRUE
    /\ UNCHANGED << tasks, idVars, stopping, apiVars, histVars,
                    clientVars >>

\* BackgroundWorker.stop called while an earlier stop() is suspended in
\* `await self._task`: self._task, when it is still set, is cancelled
\* again and awaited by this call too; when it is None, the call returns
\* at once, and stop_worker drops the worker the suspended calls are on.
StopDuringStop ==
    /\ stopping
    /\ stop

\* One pending task in the store, and a worker not yet started.
InitOverlap ==
    /\ tasks = create_task(<< >>, 1, 0)
    /\ used = {1}
    /\ clock = 0
    /\ running = FALSE
    /\ wtask = 0
    /\ stopping = FALSE
    /\ loop = [l \in Loops |-> DeadLoop]
    /\ cancel = [c \in Cancels |-> IdleCancel]
    /\ response = 0
    /\ claimed = {}
    /\ reclaimed = {}
    /\ queued = {}
    /\ NoRender
    /\ NoUpload
    /\ NoWait
    /\ NoMeta
    /\ NoStop

\* start and stop called on the worker in any order, a start and a stop
\* also while a stop awaits the cancelled task; StopEnd then writes
\* self._task = None whatever self._task has become.
NextOverlap ==
    \/ Start
    \/ StartDuringStop
    \/ StopBegin
    \/ StopDuringStop
    \/ StopEnd
    \/ \E l \in Loops : Worker(l)

SpecOverlap == InitOverlap /\ [][NextOverlap]_vars

\* ============================================================== claims

InFlight(ts) == { t \in DOMAIN ts : ts[t].status \in {PROCESSING, UPLOADING} }

\* C1: a row is removed from the store only if its status is pending in
\* the state the delete is applied to.
C1_DeleteOnlyPending ==
    [][\A t \in DOMAIN tasks :
          t \notin DOMAIN tasks' => tasks[t].status = PENDING]_vars

\* C2: at most one stored task has status processing or uploading.
C2_AtMostOneInFlight == Cardinality(InFlight(tasks)) <= 1

\* C10: stop does not abort the task in flight: a stored task that is
\* processing or uploading always has a _run task working on it, which
\* takes it on to completed or failed.
C10_StopKeepsTaskRunning ==
    \A t \in InFlight(tasks) :
        \E l \in Loops : /\ loop[l].pc \notin {"dead", "idle", "poll"}
                         /\ loop[l].task_id = t

\* C3: every change of a stored status is pending->processing,
\* processing->uploading, uploading->completed, processing->failed or
\* uploading->failed.
AllowedTransitions ==
    { << PENDING, PROCESSING >>, << PROCESSING, UPLOADING >>,
      << UPLOADING, COMPLETED >>, << PROCESSING, FAILED >>,
      << UPLOADING, FAILED >> }

C3_StatusTransitions ==
    [][\A t \in (DOMAIN tasks) \cap (DOMAIN tasks') :
          tasks'[t].status # tasks[t].status
              => << tasks[t].status, tasks'[t].status >> \in AllowedTransitions]_vars

\* One task has gone all the way to completed and another has failed out
\* of uploading.
C3_Witness ==
    \E t, u \in DOMAIN tasks :
        /\ tasks[t].status = COMPLETED
        /\ tasks[u].status = FAILED
        /\ tasks[u].progress = UPLOADING_PROGRESS

\* C4: for every stored task, result is set exactly when the status is
\* completed and error is set exactly when the status is failed.
C4_ResultAndError ==
    \A t \in DOMAIN tasks :
        /\ tasks[t].result # None <=> tasks[t].status = COMPLETED
        /\ tasks[t].error # None <=> tasks[t].status = FAILED

\* A task failed at the record write, after all its images were uploaded,
\* next to a completed task with its result.
C4_Witness ==
    \E t, u \in DOMAIN tasks :
        /\ tasks[t].status = FAILED
        /\ tasks[t].error = Some(ErrRecord)
        /\ tasks[t].result = None
        /\ tasks[u].status = COMPLETED
        /\ tasks[u].result # None

\* C5: a cancel of a task whose stored status is pending removes the row
\* for good, and a cancel of a task whose stored status is processing,
\* uploading, completed or failed is rejected with 409 and changes no row.
\* The status is the one the row has in the state each step of the cancel
\* is taken in:
\*   - an id whose row is gone never has a row again;
\*   - an answer of 409 is given only with a row that is not pending, the
\*     store untouched;
\*   - a handler leaves its first read for cancel_task only with a pending
\*     row, the store untouched;
\*   - cancel_task's read of a pending row goes on to the delete, and its
\*     read of a row that is not pending ends the request with 409, the
\*     store untouched;
\*   - the delete, coming upon a pending row, removes that row and only
\*     that row and answers 204, and coming upon a row that is not
\*     pending leaves the store untouched and answers 409.
C5_CancelPendingOnly ==
    [][/\ \A t \in used \ DOMAIN tasks : t \notin DOMAIN tasks'
       /\ response' = HTTP_409 /\ response # HTTP_409
            => /\ tasks' = tasks
               /\ \E t \in DOMAIN tasks : tasks[t].status # PENDING
       /\ \A c \in Cancels :
            LET row == get_task(tasks, cancel[c].task_id) IN
            /\ cancel[c].pc = "idle" /\ cancel'[c] # cancel[c]
                => /\ cancel'[c].pc = "manager"
                   /\ get_task(tasks, cancel'[c].task_id) # None
                   /\ tasks[cancel'[c].task_id].status = PENDING
                   /\ tasks' = tasks
            /\ cancel[c].pc = "manager" /\ cancel'[c] # cancel[c]
                                        /\ row # None
                => /\ tasks' = tasks
                   /\ IF row[1].status = PENDING
                      THEN cancel'[c].pc = "delete"
                      ELSE /\ cancel'[c] = IdleCancel
                           /\ response' = HTTP_409
            /\ cancel[c].pc = "delete" /\ cancel'[c] # cancel[c]
                                       /\ row # None
                => IF row[1].status = PENDING
                   THEN /\ response' = HTTP_204
                        /\ tasks' = delete_task(tasks, cancel[c].task_id)
                        /\ cancel[c].task_id \notin DOMAIN tasks'
                   ELSE /\ response' = HTTP_409
                        /\ tasks' = tasks]_vars

\* C6: every DELETE /tasks/{id} request is answered 204, 404 or 409.
C6_CancelOutcomes == response \in {0, HTTP_204, HTTP_404, HTTP_409}

\* C7: get_pending_tasks returns no task id a second time (a status never
\* goes back to pending, so a second return falls in the same pending
\* period), and no two _process_task executions work on the same task.
C7_ClaimedOnce ==
    /\ reclaimed = {}
    /\ \A l, m \in Loops :
          (l # m /\ loop[l].pc \notin {"dead", "idle", "poll"}
                 /\ loop[m].pc \notin {"dead", "idle", "poll"})
              => loop[l].task_id # loop[m].task_id

\* C8: the task get_pending_tasks(1) hands to the dispatcher, and every
\* task the dispatcher moves to processing, is the oldest pending task:
\* no other pending task has an earlier created_at, or the same
\* created_at and a smaller id.
Before(ts, u, t) ==
    \/ ts[u].created_at < ts[t].created_at
    \/ ts[u].created_at = ts[t].created_at /\ u < t

Oldest(ts, t) == \A u \in PendingIds(ts) \ {t} : ~Before(ts, u, t)

C8_FifoOrder ==
    [][/\ \A l \in Loops :
            (loop[l].pc = "poll" /\ loop'[l].pc = "get")
                => Oldest(tasks, loop'[l].task_id)
       /\ \A t \in (DOMAIN tasks) \cap (DOMAIN tasks') :
            (tasks[t].status = PENDING /\ tasks'[t].status = PROCESSING)
                => Oldest(tasks, t)]_vars

\* C9: when a step of processing a task has raised, the task ends stored
\* as failed with the error's message, and the dispatcher loop, unless a
\* stop() has ended it, goes on to its next iteration.
C9_FailureRecorded ==
    [][\A l \in Loops :
          (loop[l].pc = "fail" /\ loop'[l] # loop[l])
              => /\ running' => loop'[l].pc = "idle"
                 /\ loop[l].task_id \in DOMAIN tasks'
                 /\ tasks'[loop[l].task_id].status = FAILED
                 /\ tasks'[loop[l].task_id].error = Some(loop[l].err)]_vars

\* C11: no retry at the task level: a workflow goes to queue_prompt at
\* most once (the task a loop takes into queue_prompt was never there
\* before), get_pending_tasks never returns a failed task, and no _run
\* task is working on a task that is stored failed.
C11_NoTaskRetry ==
    [][\A l \in Loops :
          /\ (loop[l].pc = "queue" /\ loop'[l].pc \in {"wait", "fail"})
                => loop[l].task_id \notin queued
          /\ (loop[l].pc = "poll" /\ loop'[l].pc = "get")
                => tasks[loop'[l].task_id].status = PENDING
          /\ (loop'[l].pc \notin {"dead", "idle", "poll"}
              /\ loop'[l].task_id \in DOMAIN tasks')
                => tasks'[loop'[l].task_id].status # FAILED]_vars

\* A task was submitted and has failed, and the loop is working on the
\* next task.
C11_Witness ==
    \E t \in DOMAIN tasks, l \in Loops :
        /\ tasks[t].status = FAILED
        /\ t \in queued
        /\ loop[l].pc = "wait"
        /\ loop[l].task_id # t

\* C12: every row create_task adds to the store has status pending,
\* progress 0, and neither result nor error.
C12_CreatedPending ==
    [][\A t \in (DOMAIN tasks') \ (DOMAIN tasks) :
          /\ tasks'[t].status = PENDING
          /\ tasks'[t].progress = 0
          /\ tasks'[t].result = None
          /\ tasks'[t].error = None]_vars

\* A task was created while an older one is past pending and a cancelled
\* one is gone.
C12_Witness ==
    \E t, u \in DOMAIN tasks :
        /\ tasks[t].status = PENDING
        /\ tasks[t].progress = 0
        /\ tasks[u].status = UPLOADING
        /\ tasks[u].created_at < tasks[t].created_at

\* C15: every stored progress is an integer of 0..100, it is 100 for a
\* completed task, and no step lowers the progress of a task that is
\* processing before and after the step.
C15_Progress ==
    [][\A t \in DOMAIN tasks' :
          /\ tasks'[t].progress \in 0..100
          /\ tasks'[t].status = COMPLETED
                => tasks'[t].progress = COMPLETED_PROGRESS
          /\ (t \in DOMAIN tasks /\ tasks[t].status = PROCESSING
              /\ tasks'[t].status = PROCESSING)
                => tasks'[t].progress >= tasks[t].progress]_vars

\* One task is completed and another is being processed.
C15_Witness ==
    \E t, u \in DOMAIN tasks :
        /\ tasks[t].status = COMPLETED
        /\ tasks[t].progress = COMPLETED_PROGRESS
        /\ tasks[u].status = PROCESSING

\* The requested node ids that have an entry in the outputs, counted as
\* often as they are requested.
RECURSIVE Matched(_, _)
Matched(outputs, ids) ==
    IF ids = << >> THEN 0
    ELSE (IF Head(ids) \in DOMAIN outputs THEN 1 ELSE 0)
         + Matched(outputs, Tail(ids))

\* The images in the outputs of the requested node ids, counted as often
\* as the node is requested.
RECURSIVE ImageCount(_, _)
ImageCount(outputs, ids) ==
    IF ids = << >> THEN 0
    ELSE (IF Head(ids) \in DOMAIN outputs THEN Len(outputs[Head(ids)]) ELSE 0)
         + ImageCount(outputs, Tail(ids))

\* C13, as stated: a completed task has progress 100 and as many result
\* images as requested node ids matched an entry of the outputs.
C13_ImagesPerSelector ==
    \A t \in DOMAIN tasks :
        tasks[t].status = COMPLETED
            => /\ tasks[t].progress = COMPLETED_PROGRESS
               /\ tasks[t].result[1].images = Matched(history, node_ids)

\* C13, amended: a completed task has progress 100 and one result image
\* for each image in the outputs of the matched node ids, of which there
\* is at least one; and after a successful wait a task fails only with the
\* error of a later step, or with "no outputs" when the matched node ids
\* have no image.
C13_ImagesOfMatched ==
    \A t \in DOMAIN tasks :
        /\ tasks[t].status = COMPLETED
            => /\ tasks[t].progress = COMPLETED_PROGRESS
               /\ tasks[t].result[1].images = ImageCount(history, node_ids)
               /\ ImageCount(history, node_ids) > 0
        /\ tasks[t].error = Some(ErrNoOutputs)
            => ImageCount(history, node_ids) = 0
        /\ tasks[t].status = FAILED
            => tasks[t].error \in { Some(e) : e \in
                   WaitErrors \cup {ErrQueue, ErrNoOutputs, ErrDownload,
                                    ErrUpload, ErrTransport, ErrRecord} }

\* A task completed after MaxEvents progress events with more images than
\* matched node ids.
C13_Witness ==
    \E t \in DOMAIN tasks :
        /\ tasks[t].status = COMPLETED
        /\ events = MaxEvents
        /\ Matched(history, node_ids) > 0
        /\ tasks[t].result[1].images > Matched(history, node_ids)

\* C14: every progress value the completion wait reports is in the store
\* when the callback returns: the task is processing with that progress.
C14_ProgressForwarded ==
    [][\A l \in Loops :
          (loop[l].pc = "wait" /\ events' = events + 1)
              => /\ tasks'[loop[l].task_id].status = PROCESSING
                 /\ tasks'[loop[l].task_id].progress = last_progress']_vars

\* The errors upload_image raises.
UploadErrors == {ErrUpload, ErrTransport}

\* An upload_image call has raised: the error is on its way to fail_task,
\* or stored with the failed task.
UploadFailed ==
    \/ \E l \in Loops : loop[l].pc = "fail" /\ loop[l].err \in UploadErrors
    \/ \E t \in DOMAIN tasks :
          tasks[t].status = FAILED /\ tasks[t].error[1] \in UploadErrors

\* The errors raised so far.
RaisedUpload ==
    { loop[l].err : l \in { m \in Loops : loop[m].pc = "fail" } }
    \cup { tasks[t].error[1] :
              t \in { u \in DOMAIN tasks : tasks[u].status = FAILED } }

\* The attempts of the upload_image call that failed.
FailedAttempts ==
    Len(outcomes) - (IF outcomes # << >> /\ outcomes[Len(outcomes)] = "ok"
                     THEN 1 ELSE 0)

\* C16: one upload_image call makes at most MAX_RETRIES + 1 attempts,
\* whichever way an attempt fails; no attempt follows a successful one; the
\* sleeps are 1, 2, 4, one after each failed attempt but the last of
\* MAX_RETRIES + 1; and the call raises only after MAX_RETRIES + 1 failed
\* attempts, with the error of the last of them.
C16_UploadRetries ==
    /\ Len(outcomes) <= MAX_RETRIES + 1
    /\ \A i \in DOMAIN tries : tries[i] <= MAX_RETRIES + 1
    /\ \A i \in 1..(Len(outcomes) - 1) : outcomes[i] # "ok"
    /\ Len(sleeps) = (IF FailedAttempts <= MAX_RETRIES
                      THEN FailedAttempts ELSE MAX_RETRIES)
    /\ \A i \in DOMAIN sleeps : sleeps[i] = 2 ^ (i - 1)
    /\ UploadFailed
        => /\ Len(outcomes) = MAX_RETRIES + 1
           /\ FailedAttempts = MAX_RETRIES + 1
           /\ RaisedUpload =
                { IF outcomes[Len(outcomes)] = "response"
                  THEN ErrUpload ELSE ErrTransport }

\* A call has failed four times, by responses and by exceptions, slept 1,
\* 2 and 4 seconds, and raised the exception of its last attempt.
C16_Witness ==
    /\ outcomes = << "response", "exception", "response", "exception" >>
    /\ sleeps = << 1, 2, 4 >>
    /\ \E t \in DOMAIN tasks : tasks[t].error = Some(ErrTransport)

\* C17: an artifact whose upload failed twice and then succeeded has its
\* token in file_tokens (the call goes on), and once the call has
\* returned, the list written to the record, and the record, hold that
\* token exactly once.
C17_RetriedOnce ==
    \A i \in DOMAIN tries :
        tries[i] = 3
            => /\ i <= Len(file_tokens)
               /\ Cardinality({ j \in DOMAIN file_tokens :
                                  file_tokens[j] = file_tokens[i] }) = 1
               /\ returned # None
                    => /\ returned[1][2] = file_tokens
                       /\ LET w == calls[Len(calls)].fields
                              r == record[returned[1][1]]
                          IN /\ Cardinality({ j \in DOMAIN w :
                                    w[j].file_token = file_tokens[i] }) = 1
                             /\ Cardinality({ j \in DOMAIN r :
                                    r[j].file_token = file_tokens[i] }) = 1

\* Two artifacts, the second uploaded at its third attempt, attached to a
\* record that had attachments.
C17_Witness ==
    /\ tries = << 1, 3 >>
    /\ returned # None
    /\ record_id # None
    /\ Len(record[1]) = 2 + MaxPrior

\* C18: when the upload of artifact k has used up its attempts, the call
\* has failed as a whole: the k-1 tokens uploaded before are still in
\* Drive, artifact k was the last one tried, no record request was or will
\* be made, nothing is returned, and the task is, and stays, without a
\* result, uploading until it is failed with the error.
C18_UploadAbort ==
    [][UploadFailed'
        => /\ Len(tries') = Len(file_tokens') + 1
           /\ Len(tries') <= MaxImages
           /\ tries'[Len(tries')] = MAX_RETRIES + 1
           /\ \A i \in DOMAIN file_tokens' : file_tokens'[i] \in drive'
           /\ calls' = << >>
           /\ returned' = None
           /\ \A t \in DOMAIN tasks' :
                /\ tasks'[t].result = None
                /\ tasks'[t].status \in {UPLOADING, FAILED}
           /\ UploadFailed
                => /\ UNCHANGED << file_tokens, tries, outcomes, drive,
                                   record, calls, returned >>
                   /\ \A t \in DOMAIN tasks' : tasks'[t].status = FAILED]_vars

\* The second of two artifacts has used up its attempts: the first is in
\* Drive, the record is as it was, and the task is failed.
C18_Witness ==
    /\ tries = << 2, MAX_RETRIES + 1 >>
    /\ Len(file_tokens) = 1
    /\ file_tokens[1] \in drive
    /\ record_id # None
    /\ 1 \in DOMAIN record
    /\ Len(record[1]) = MaxPrior
    /\ \E t \in DOMAIN tasks :
          tasks[t].status = FAILED /\ tasks[t].error = Some(ErrUpload)

\* C19: the list written by update_record after a successful read is the
\* attachments read, in their order, followed by the new file tokens in
\* upload order, and the record then holds its prior attachments unchanged
\* followed by the new ones; the list written by create_record is the new
\* file tokens, and the new record holds exactly these.
C19_AppendMerge ==
    \A i \in DOMAIN calls :
        LET c == calls[i]
            n == Len(file_tokens)
        IN
        /\ c.op = "update"
            => /\ record_id # None /\ i = 2 /\ calls[1].op = "get"
               /\ calls[1].ok
                    => LET prior == calls[1].fields
                           k == Len(prior)
                       IN /\ Len(c.fields) = k + n
                          /\ \A j \in 1..k :
                                c.fields[j].file_token = prior[j].file_token
                          /\ \A j \in 1..n :
                                c.fields[k + j].file_token = file_tokens[j]
                          /\ c.ok
                               => /\ Len(record[record_id[1]]) = k + n
                                  /\ \A j \in 1..k :
                                        record[record_id[1]][j] = prior[j]
                                  /\ \A j \in 1..n :
                                        record[record_id[1]][k + j].file_token
                                            = file_tokens[j]
        /\ c.op = "create"
            => /\ record_id = None /\ i = 1
               /\ Len(c.fields) = n
               /\ \A j \in 1..n : c.fields[j].file_token = file_tokens[j]
               /\ c.ok
                    => /\ returned # None
                       /\ returned[1][1] \in DOMAIN record
                       /\ Len(record[returned[1][1]]) = n
                       /\ \A j \in 1..n :
                             record[returned[1][1]][j].file_token
                                 = file_tokens[j]

\* A record with MaxPrior attachments, the later upload first, has got one
\* new attachment after them.
C19_Witness ==
    /\ record_id # None
    /\ Len(calls) = 2 /\ calls[1].ok /\ calls[2].ok
    /\ Len(file_tokens) = 1
    /\ Len(record[1]) = MaxPrior + 1
    /\ record[1][1].file_token = MaxPrior
    /\ record[1][MaxPrior + 1].file_token = file_tokens[1]

\* C20: when get_record fails, for a record that exists, the call goes on
\* to update_record with exactly the new file tokens; when that succeeds
\* the record holds exactly the new attachments, the call returns the
\* record id with the file tokens, and the task is not failed.
C20_ReadFailureOverwrites ==
    (calls # << >> /\ calls[1].op = "get" /\ ~calls[1].ok
     /\ 1 \in DOMAIN record)
        => /\ Len(calls) = 1
                => \E l \in Loops : loop[l].pc = "attach"
           /\ Len(calls) > 1
                => /\ calls[2].op = "update"
                   /\ calls[2].fields =
                        [j \in 1..Len(file_tokens) |->
                            [file_token |-> file_tokens[j]]]
                   /\ calls[2].ok
                        => /\ returned = Some(<< record_id[1], file_tokens >>)
                           /\ Len(record[1]) = Len(file_tokens)
                           /\ \A j \in DOMAIN file_tokens :
                                 record[1][j].file_token = file_tokens[j]
                           /\ \A t \in DOMAIN tasks :
                                 tasks[t].status # FAILED

\* The read of a record with MaxPrior attachments failed, the update went
\* through, and the task is completed: the record holds the new ones only.
C20_Witness ==
    /\ Len(calls) = 2 /\ ~calls[1].ok /\ calls[2].ok
    /\ returned # None
    /\ Len(file_tokens) = MaxImages
    /\ Len(record[1]) = MaxImages
    /\ record[1][1].file_token = MaxPrior + 1
    /\ \E t \in DOMAIN tasks : tasks[t].status = COMPLETED

\* C21: while the engine never reports the end of the prompt, neither by
\* silence nor by messages that do not end it, wait_for_completion
\* eventually raises TimeoutError, and whenever it has raised it the
\* elapsed time it computed, which is the time since the wait began, is
\* above the timeout.
C21_TimeoutWhenNeverTerminal ==
    /\ [](wpc = "timed out"
            => /\ elapsed > timeout
               /\ elapsed = time - start_time)
    /\ <>(wpc = "timed out")

\* The wait has timed out at the first test after a silent period that
\* began within the budget, the task failed with the timeout error.
C21_Witness ==
    /\ wpc = "timed out"
    /\ silences = 1
    /\ timeout = RECV_TIMEOUT
    /\ elapsed > timeout
    /\ tasks[1].status = FAILED
    /\ tasks[1].error = Some(ErrTimeout)

\* The "executing" message of the awaited prompt with no node.
Completion ==
    [type |-> "executing", prompt_id |-> prompt_id, node |-> None,
     value |-> 0, max |-> 0]

\* C22: the expiry of the 30 s inactivity timeout of ws.recv() neither ends
\* nor fails the wait: the step that expires it goes back to the test of the
\* elapsed time and changes neither the worker loop nor the task; that test,
\* with the elapsed time within the timeout, goes on to the next ws.recv();
\* and the completion message, after however many expiries, takes the wait
\* out of its loop to the history without raising.
C22_InactivityIsLocal ==
    [][/\ silences' # silences
            => /\ wpc' = "top"
               /\ loop' = loop
               /\ tasks' = tasks
       /\ wpc = "top" /\ wpc' # "top" /\ time - start_time <= timeout
            => wpc' = "recv"
       /\ wpc = "recv" /\ wpc' # "recv" /\ silences' = silences
                       /\ message' = Completion
            => /\ wpc' = "history"
               /\ loop' = loop]_vars

\* The wait has returned the history after two silent periods, the last
\* test of the elapsed time having found more than their 60 s and no more
\* than the timeout, and the task has gone on to uploading.
C22_Witness ==
    /\ wpc = "returned"
    /\ silences >= 2
    /\ elapsed > 2 * RECV_TIMEOUT
    /\ elapsed <= timeout
    /\ message = Completion
    /\ tasks[1].status = UPLOADING

\* C23: a received message takes the wait out of its loop to the history
\* only if it is an "executing" message of the awaited prompt with no node,
\* and makes it raise the execution error only if it is an
\* "execution_error" message of the awaited prompt; after a message of any
\* other prompt the wait is back at its loop head, nothing is raised and
\* progress_callback is not called.
C23_OnlyOwnEvents ==
    [][wpc = "recv" /\ wpc' # "recv" /\ silences' = silences
        => /\ wpc' = "history"
                => /\ message'.type = "executing"
                   /\ message'.prompt_id = prompt_id
                   /\ message'.node = None
           /\ wpc' = "failed"
                => /\ message'.type = "execution_error"
                   /\ message'.prompt_id = prompt_id
           /\ wpc' \in {"top", "history", "failed"}
           /\ message'.prompt_id # prompt_id
                => /\ wpc' = "top"
                   /\ loop' = loop
                   /\ tasks' = tasks
                   /\ callback' = None
                   /\ last_progress' = last_progress]_vars

\* After a progress message of the awaited prompt, the completion message
\* of another prompt has been read: the wait is back at its loop head.
C23_Witness ==
    /\ message = [Completion EXCEPT !.prompt_id = "other prompt"]
    /\ wpc = "top"
    /\ callback = None
    /\ last_progress > 0
    /\ \E l \in Loops : loop[l].pc = "wait"

\* C24: the metadata of every TaskResponse a GET returns equals the
\* metadata the task's POST carried (absent, {} or an object), whatever
\* status the task has reached.
C24_MetadataEchoed ==
    got # None => got[1].metadata = supplied[got[1].task_id]

\* C25: an update of a task id the store does not hold fails: the worker
\* step that makes it (update_task_status to processing or to uploading,
\* complete_task) ends in the error handler instead of going on, and the
\* store is left as it is.
C25_UpdateUnknownFails ==
    [][\A l \in Loops :
          /\ loop[l].pc \in {"set_processing", "set_uploading", "complete"}
          /\ get_task(tasks, loop[l].task_id) = None
          /\ loop'[l] # loop[l]
          /\ loop'[l].pc # "dead"
          => /\ loop'[l].pc = "fail"
             /\ tasks' = tasks]_vars

\* C26: when the completed job's history holds no image for any of the
\* task's output_node_ids, the return of the wait raises the no-outputs
\* error, and the handler takes the task from processing to failed with
\* that error; a task is at or past the uploading update (its download,
\* its upload, its record write, completed) only with at least one image.
C26_NoOutputsFails ==
    /\ [](\A l \in Loops :
            \/ loop[l].pc \in {"set_uploading", "download", "upload",
                               "read", "attach", "complete"}
            \/ /\ loop[l].task_id \in DOMAIN tasks
               /\ tasks[loop[l].task_id].status \in {UPLOADING, COMPLETED}
            => get_outputs_for_nodes(history, node_ids) # << >>)
    /\ [][\A l \in Loops :
            /\ loop[l].pc = "wait" /\ loop'[l].pc # "wait"
                /\ loop'[l].err \notin WaitErrors
                /\ get_outputs_for_nodes(history', node_ids) = << >>
                => loop'[l] = Raise(l, ErrNoOutputs)
            /\ loop[l].pc = "fail" /\ loop[l].err = ErrNoOutputs
                /\ loop'[l] # loop[l]
                => /\ tasks[loop[l].task_id].status = PROCESSING
                   /\ tasks'[loop[l].task_id].status = FAILED
                   /\ tasks'[loop[l].task_id].error = Some(ErrNoOutputs)
                   /\ drive' = {} /\ calls' = << >>]_vars

\* The job completed with images, but none for the node the task names:
\* the task has failed with the no-outputs error.
C26_Witness ==
    /\ tasks[1].status = FAILED
    /\ tasks[1].error = Some(ErrNoOutputs)
    /\ tasks[1].progress = 0
    /\ node_ids # << >>
    /\ \E n \in DOMAIN history : history[n] # << >>
    /\ get_outputs_for_nodes(history, node_ids) = << >>

\* C27: status and progress set together are written by one update: every
\* stored pending task has progress 0, every uploading task progress 80,
\* and every completed task progress 100 and a result.
C27_AtomicPairs ==
    \A t \in DOMAIN tasks :
        /\ tasks[t].status = PENDING => tasks[t].progress = 0
        /\ tasks[t].status = UPLOADING
              => tasks[t].progress = UPLOADING_PROGRESS
        /\ tasks[t].status = COMPLETED
              => /\ tasks[t].progress = COMPLETED_PROGRESS
                 /\ tasks[t].result # None

\* One task is completed and the next is uploading.
C27_Witness ==
    \E t, u \in DOMAIN tasks :
        /\ tasks[t].status = COMPLETED
        /\ tasks[t].progress = COMPLETED_PROGRESS
        /\ tasks[u].status = UPLOADING
        /\ tasks[u].progress = UPLOADING_PROGRESS

\* C28: for every "progress" message of the awaited prompt with value >= 0
\* the percentage progress_callback is called with is (value * 100)
\* divided by max, rounded toward zero, when max > 0, and 0 when max <= 0,
\* and it lies in 0..100.
C28_Percentage ==
    [][/\ wpc = "recv" /\ wpc' # "recv" /\ silences' = silences
       /\ message'.type = "progress"
       /\ message'.prompt_id = prompt_id
       /\ message'.value >= 0
       => /\ callback' # None
          /\ callback'[1] = IF message'.max > 0
                            THEN (message'.value * 100) \div message'.max
                            ELSE 0
          /\ callback'[1] \in 0..100]_vars

\* C29: every task that is processing is completed or failed at some later
\* time, the worker being stopped and started again in between or not.
C29_InFlightEnds ==
    \A t \in TaskIds :
        (t \in DOMAIN tasks /\ tasks[t].status = PROCESSING)
            ~> (t \in DOMAIN tasks /\ tasks[t].status \in {COMPLETED, FAILED})

\* C30: once a task is deleted by a cancellation, no step of the worker
\* has an external effect for it: its workflow is not submitted to the
\* engine, no upload_image call is made for it, and no record is created
\* or updated for it.
C30_NoEffectAfterCancel ==
    [][/\ \A t \in used \ DOMAIN tasks : t \in queued' => t \in queued
       /\ \A l \in Loops :
            /\ loop[l].task_id \in used \ DOMAIN tasks
            /\ loop[l].pc \in {"upload", "attach"}
            => \/ loop'[l] = loop[l]
               \/ loop'[l].pc = "dead"]_vars

\* C31: whatever start and stop calls are made on the worker, a start
\* during a stop's await among them, at most one of its _run tasks is
\* alive; a _run task is created only by a start that finds the worker not
\* running; and when the worker is not running and no stop is in flight (a
\* stop has returned and no start came after it began, or the worker was
\* never started) none of its _run tasks is alive and none claims a task.
C31_OneLoop ==
    /\ [](/\ Cardinality(Own) <= 1
          /\ ~running /\ ~stopping => Own = {})
    /\ [][\A l \in Loops :
            /\ loop[l].pc = "dead" /\ loop'[l].pc # "dead" => ~running
            /\ ~running /\ ~stopping /\ l \in Own
                => ~(loop[l].pc = "poll" /\ loop'[l].pc = "get")]_vars

====
